---- MODULE Spec2Model ----
(***************************************************************************)
(* Model of codegen.py (ld_preload_codegen).                                *)
(*                                                                         *)
(* Part I  : the generator itself (class CodeGen) and a caller that runs   *)
(*           it twice on the same input (specification SpecGen).           *)
(* Part II : the runtime protocol the generator emits (the C text of       *)
(*           SOURCE_PROLOGUE_TEMPLATE and ENTRY_FUNC_TEMPLATE): one-time   *)
(*           global initialization, per-thread initialization and the      *)
(*           trampoline dispatch, run by several threads (specifications   *)
(*           SpecRun and SpecRunFair). The __atomic operations are         *)
(*           acquire/release on one location and the pointers are written  *)
(*           before the release store, so steps are interleaved.           *)
(***************************************************************************)
EXTENDS Integers, Sequences, FiniteSets, TLC

(***************************************************************************)
(* Bounds                                                                  *)
(***************************************************************************)
NThreads == 2      \* threads of the host process
NFuncs == 2        \* intercepted functions (one trampoline each)
MaxAppCalls == 2   \* trampoline calls made from application code, all threads together
MaxUserOps == 1    \* calls and toggles made by the user hooks, all activations together
MaxDepth == 3      \* stack height up to which a user hook may call a trampoline

Threads == 1..NThreads
Funcs == 1..NFuncs

VARIABLES
  flag_init,         \* static volatile int sys_flag_init            (line 59)
  flag_thread_init,  \* static __thread int sys_flag_thread_init     (line 60)
  flag_inst_on,      \* static __thread int sys_flag_inst_on         (line 61)
  orig,              \* the storage variables {ns}_orig_*, 0 = (void*)0
  stack,             \* per thread: the call stack, innermost frame last
  appCalls,          \* trampoline calls made by the application so far
  userOps,           \* calls and toggles made by user hooks so far
  initCalls,         \* whether the user's sys_init calls an intercepted function
  hist               \* history of what ran (observations only)

rvars == <<flag_init, flag_thread_init, flag_inst_on, orig, stack, appCalls,
           userOps, initCalls, hist>>

(***************************************************************************)
(* Part I: the generator (class CodeGen)                                   *)
(*                                                                         *)
(* A Python str is a sequence of one-character strings; a Python list or   *)
(* tuple is a sequence; a dict is the sequence of its (key, value) pairs   *)
(* in insertion order; None is the value None.                             *)
(***************************************************************************)
\* None, which is no str: a str holds one-character strings only.
None == <<"None">>

\* No exception was raised.
OK == "ok"

\* 'sub' in s
Contains(s, sub) ==
  \E i \in 1..(Len(s) - Len(sub) + 1) : SubSeq(s, i, i + Len(sub) - 1) = sub

\* s.find(sub), 1-based; 0 when absent
Find(s, sub) ==
  LET at == {i \in 1..(Len(s) - Len(sub) + 1) : SubSeq(s, i, i + Len(sub) - 1) = sub}
  IN IF at = {} THEN 0 ELSE CHOOSE i \in at : \A j \in at : i <= j

\* s.replace(old, new, 1)
ReplaceFirst(s, old, new) ==
  LET i == Find(s, old)
  IN IF i = 0 THEN s
     ELSE SubSeq(s, 1, i - 1) \o new \o SubSeq(s, i + Len(old), Len(s))

\* A replace that keeps the character and drops the rest
RemoveCharInverted(s, c) == SelectSeq(s, LAMBDA x : x = c)

\* s.replace(c, '') for a one-character c
RemoveChar(s, c) == SelectSeq(s, LAMBDA x : x # c)

Digit(d) == <<"0", "1", "2", "3", "4", "5", "6", "7", "8", "9">>[d + 1]

\* str(n) for n >= 0
RECURSIVE IntToStr(_)
IntToStr(n) == IF n < 10 THEN <<Digit(n)>> ELSE IntToStr(n \div 10) \o <<Digit(n % 10)>>

\* sep.join(parts)
RECURSIVE Join(_, _)
Join(parts, sep) ==
  IF Len(parts) = 0 THEN <<>>
  ELSE IF Len(parts) = 1 THEN parts[1]
  ELSE parts[1] \o sep \o Join(Tail(parts), sep)

\* key in d, d[key], d[key] = value for a dict d
DictHas(d, key) == \E i \in 1..Len(d) : d[i].key = key
DictGet(d, key) == d[CHOOSE i \in 1..Len(d) : d[i].key = key].val

\* A dict that puts a new key before the keys it holds
DictSetInFront(d, key, val) ==
  IF DictHas(d, key)
    THEN [i \in 1..Len(d) |-> IF d[i].key = key THEN [key |-> key, val |-> val] ELSE d[i]]
    ELSE <<[key |-> key, val |-> val]>> \o d

DictSet(d, key, val) ==
  IF DictHas(d, key)
    THEN [i \in 1..Len(d) |-> IF d[i].key = key THEN [key |-> key, val |-> val] ELSE d[i]]
    ELSE Append(d, [key |-> key, val |-> val])

\* CodeGen('ns'), lines 123-132
Namespace == <<"n", "s">>

NewCodeGen ==
  [namespace |-> Namespace,
   includes |-> <<>>,
   header_body |-> <<>>,
   source_body |-> <<>>,
   original_vars |-> <<>>,
   init_original_body |-> <<>>,
   version_to_id_map |-> <<>>,
   versioned_functions |-> <<>>,
   typedefs |-> <<>>]

\* A version id that does not count the versions seen
get_version_id_uncounted(c, version) ==
  IF DictHas(c.version_to_id_map, version)
    THEN [cg |-> c, ret |-> DictGet(c.version_to_id_map, version)]
    ELSE [cg |-> [c EXCEPT !.version_to_id_map = DictSet(@, version, 0)], ret |-> 0]

\* _get_version_id, lines 135-141
get_version_id(c, version) ==
  IF DictHas(c.version_to_id_map, version)
    THEN [cg |-> c, ret |-> DictGet(c.version_to_id_map, version)]
    ELSE LET ret == Len(c.version_to_id_map)
         IN [cg |-> [c EXCEPT !.version_to_id_map = DictSet(@, version, ret)], ret |-> ret]

\* _get_internal_name, lines 144-148
get_internal_name(c, original_name, version) ==
  IF version = None
    THEN [cg |-> c, ret |-> original_name \o <<"_", "_">>]
    ELSE LET r == get_version_id(c, version)
         IN [cg |-> r.cg, ret |-> original_name \o <<"_">> \o IntToStr(r.ret)]

\* the args_decl_list of lines 153-155, 164-166 and 226
ArgsDecl(prototype) ==
  [i \in 1..(Len(prototype) - 1) |-> prototype[i + 1][1] \o <<" ">> \o prototype[i + 1][2]]

\* the argument names of lines 160 and 227
ArgsCall(prototype) == [i \in 1..(Len(prototype) - 1) |-> prototype[i + 1][2]]

\* _get_original_var_decl, lines 151-156
get_original_var_decl(prototype, name) ==
  prototype[1][1] \o <<"(", "*">> \o name \o <<")", "(">> \o Join(ArgsDecl(prototype), <<",", " ">>) \o <<")">>

\* _get_original_var_call, lines 158-160
get_original_var_call(prototype, name) ==
  name \o <<"(">> \o Join(ArgsCall(prototype), <<",", " ">>) \o <<")">>

\* _get_inst_func_decl, lines 162-167
get_inst_func_decl(prototype, name) ==
  prototype[1][1] \o <<" ">> \o name \o <<"(">> \o Join(ArgsDecl(prototype), <<",", " ">>) \o <<")">>

\* An index that does not count the table
TypedefIndexZero(c) == 0

\* index = len(self._typedefs), line 174
TypedefIndex(c) == Len(c.typedefs)

\* A header line 'typedef {};\n', 'extern {};\n' or '{};\n' (lines 176, 205, 206)
Line(kind, text) == [kind |-> kind, text |-> text]

\* _get_internal_type, lines 169-178
get_internal_type(c, type_decl) ==
  IF ~Contains(type_decl, <<"(", "*", ")">>) THEN [cg |-> c, ret |-> type_decl]
  ELSE IF DictHas(c.typedefs, type_decl) THEN [cg |-> c, ret |-> DictGet(c.typedefs, type_decl)]
  ELSE LET internal_type == c.namespace \o <<"_", "i", "n", "t", "e", "r", "n", "a", "l", "_", "t", "y", "p", "e", "_">> \o IntToStr(TypedefIndex(c))
       IN [cg |-> [c EXCEPT
                     !.header_body = Append(@, Line("typedef",
                        ReplaceFirst(type_decl, <<"(", "*", ")">>, <<"(", "*">> \o internal_type \o <<")">>))),
                     !.typedefs = DictSet(@, type_decl, internal_type)],
           ret |-> internal_type]

\* add_include, lines 180-181
add_include(c, include_file) == [c EXCEPT !.includes = Append(@, include_file)]

\* The loop of lines 186-188 from position index on: it interns the type of each
\* element and stores the (type, name) pair back into the caller's list. An element
\* with no [0] or no [1] raises IndexError; the type is interned before [1] is read.
RECURSIVE InternLoop(_, _, _)
InternLoop(c, prototype, index) ==
  IF index > Len(prototype) THEN [cg |-> c, prototype |-> prototype, err |-> OK]
  ELSE IF Len(prototype[index]) < 1
    THEN [cg |-> c, prototype |-> prototype, err |-> "IndexError"]
  ELSE LET r == get_internal_type(c, prototype[index][1])
       IN IF Len(prototype[index]) < 2
            THEN [cg |-> r.cg, prototype |-> prototype, err |-> "IndexError"]
            ELSE InternLoop(r.cg,
                            [prototype EXCEPT ![index] = <<r.ret, prototype[index][2]>>],
                            index + 1)

\* version = version_label.replace('@', ''), lines 190-193
VersionOf(version_label) ==
  IF version_label = None THEN None ELSE RemoveChar(version_label, "@")

\* The identifiers of lines 194-203 and the remaining appends of lines 205-242,
\* for a prototype whose types are interned.
Emit(c, prototype, inst_name, version_label) ==
  LET version == VersionOf(version_label)
      n == IF inst_name = None
             THEN get_internal_name(c, prototype[1][2], version)
             ELSE [cg |-> c, ret |-> inst_name]
      c1 == n.cg
      internal_name == n.ret
      original_var_name == c.namespace \o <<"_", "o", "r", "i", "g", "_">> \o internal_name
      entry_func_name == c.namespace \o <<"_", "e", "n", "t", "r", "y", "_">> \o internal_name
      inst_func_name == c.namespace \o <<"_", "i", "n", "s", "t", "_">> \o internal_name
      isvoid == prototype[1][1] = <<"v", "o", "i", "d">>
      lookup_call ==
        IF version = None
          THEN [fn |-> "dlsym", original_name |-> prototype[1][2], version |-> None]
          ELSE [fn |-> "dlvsym", original_name |-> prototype[1][2], version |-> version]
      entry ==
        [kind |-> "entry",
         return_type |-> prototype[1][1],
         original_var_name |-> original_var_name,
         entry_func_name |-> entry_func_name,
         inst_func_name |-> inst_func_name,
         args_decl_list |-> Join(ArgsDecl(prototype), <<",", " ">>),
         args_call_list |-> Join(ArgsCall(prototype), <<",", " ">>),
         save_return_value |->
           IF ~isvoid THEN prototype[1][1] \o <<" ">> \o c.namespace \o <<"_", "r", "e", "t", "_", "v", "a", "l", "u", "e", " ", "=", " ">> ELSE <<>>,
         return_saved_value |->
           IF ~isvoid THEN <<"r", "e", "t", "u", "r", "n", " ">> \o c.namespace \o <<"_", "r", "e", "t", "_", "v", "a", "l", "u", "e", ";">> ELSE <<>>,
         return_if_needed |-> IF isvoid THEN <<>> ELSE <<"r", "e", "t", "u", "r", "n", " ">>]
      symver ==
        [kind |-> "symver",
         entry_func_name |-> entry_func_name,
         symbol_name |-> prototype[1][2] \o <<"@">> \o
                           (IF version_label = None THEN <<>> ELSE version_label)]
      vf == IF DictHas(c1.versioned_functions, version)
              THEN c1.versioned_functions
              ELSE DictSet(c1.versioned_functions, version, <<>>)
  IN [cg |->
        [c1 EXCEPT
           !.header_body = @ \o
              <<Line("extern", get_original_var_decl(prototype, original_var_name)),
                Line("decl", get_inst_func_decl(prototype, inst_func_name))>>,
           !.original_vars = Append(@, get_original_var_decl(prototype, original_var_name)),
           !.init_original_body = Append(@,
              [original_var |-> original_var_name, lookup_call |-> lookup_call]),
           !.source_body = IF version = None THEN Append(@, entry)
                                             ELSE @ \o <<entry, symver>>,
           !.versioned_functions =
              IF version = None THEN @
              ELSE DictSet(vf, version, Append(DictGet(vf, version), prototype[1][2]))],
      names |-> [orig |-> original_var_name, entry |-> entry_func_name,
                 inst |-> inst_func_name]]

\* add_function, lines 184-244. prototype is the caller's list, which the loop of
\* lines 186-188 overwrites in place; the result holds it as the call leaves it.
add_function(c, prototype, includes, inst_name, version_label) ==
  IF ~(Len(prototype) > 0)
    THEN [cg |-> c, prototype |-> prototype, err |-> "AssertionError", names |-> None]
  ELSE LET l == InternLoop(c, prototype, 1)
       IN IF l.err # OK
            THEN [cg |-> l.cg, prototype |-> l.prototype, err |-> l.err, names |-> None]
            ELSE LET e == Emit(l.cg, l.prototype, inst_name, version_label)
                 IN [cg |-> e.cg, prototype |-> l.prototype, err |-> OK, names |-> e.names]

\* get_header_contents, lines 246-252
get_header_contents(c) ==
  [namespace |-> c.namespace,
   includes |-> [i \in 1..Len(c.includes) |-> Line("include", c.includes[i])],
   body |-> c.header_body]

\* get_source_contents, lines 254-262
get_source_contents(c, header_filename) ==
  [namespace |-> c.namespace,
   header_filename |-> header_filename,
   original_vars |-> c.original_vars,
   init_original_body |-> c.init_original_body,
   body |-> c.source_body]

\* get_version_contents, lines 264-271: one stanza per key of _versioned_functions
get_version_contents(c) ==
  [i \in 1..Len(c.versioned_functions) |->
     [version |-> c.versioned_functions[i].key,
      functions |-> Join(c.versioned_functions[i].val, <<";", " ">>)]]

\* No file of the output directory is written yet.
NoFiles == [header |-> None, source |-> None, version |-> None, makefile |-> None]

\* generate, lines 273-302. The local has_version is bound by line 293 only; line
\* 299 reads it after the Makefile has been opened for writing.
generate(c, makefile) ==
  LET version_contents == get_version_contents(c)
      has_version_bound == Len(version_contents) > 0
      f2 == [NoFiles EXCEPT !.header = get_header_contents(c),
                            !.source = get_source_contents(c, "inst.h")]
      f3 == IF Len(version_contents) > 0 THEN [f2 EXCEPT !.version = version_contents] ELSE f2
  IN IF ~makefile THEN [files |-> f3, err |-> OK]
     ELSE IF ~has_version_bound
       THEN [files |-> [f3 EXCEPT !.makefile = <<>>], err |-> "UnboundLocalError"]
       ELSE [files |-> [f3 EXCEPT !.makefile =
                          <<[basename |-> "inst",
                             version_options |-> "-Wl,--version-script -Wl,version.txt"]>>],
             err |-> OK]

(***************************************************************************)
(* The caller: a script that builds one CodeGen, generates, and then       *)
(* regenerates from the same input on a fresh CodeGen.                     *)
(***************************************************************************)
TInt == <<"i", "n", "t">>
TVoid == <<"v", "o", "i", "d">>
TCallback == <<"v", "o", "i", "d", "(", "*", ")", "(", "i", "n", "t", ")">>
TGetter == <<"i", "n", "t", "(", "*", ")", "(", "v", "o", "i", "d", ")">>

\* The prototype lists the caller holds. The last two are malformed: a parameter
\* that is a 1-tuple, and an empty prototype.
Prototypes ==
  << << <<TInt, <<"f">>>> >>,
     << <<TCallback, <<"f">>>>, <<TInt, <<"x">>>> >>,
     << <<TVoid, <<"f", "_", "0">>>>, <<TCallback, <<"c", "b">>>>, <<TGetter, <<"h">>>> >>,
     << <<TInt, <<"f", "_">>>>, <<TGetter, <<"p">>>>, <<TGetter, <<"q">>>> >>,
     << <<TInt, <<"g">>>>, <<TGetter>>, <<TCallback, <<"c", "b">>>> >>,
     << >> >>

Labels == {None, <<"V">>, <<"@", "V">>, <<"@", "W">>}
InstNames == {None, <<"h", "k">>}
IncludeFiles == {"<stdio.h>", "<a.h>"}
IncludeLists == {<<>>, <<"<a.h>">>}

MaxOps == 2   \* add_include and add_function calls of one run

VARIABLES
  cg,      \* the CodeGen object of the current run
  heap,    \* the caller's prototype lists, by position in Prototypes
  log,     \* the calls of the first run, in order
  phase,   \* "run1", "gen1", "run2", "done" or "aborted"
  pos,     \* second run: the number of calls of the log made again
  out,     \* what generate wrote and raised, per run
  obs      \* per add_function call of the current run: its input, its names and
           \* the attributes of the CodeGen object it changed

gvars == <<cg, heap, log, phase, pos, out, obs>>
vars == <<rvars, gvars>>


(***************************************************************************)
(* Part II: the emitted runtime                                            *)
(***************************************************************************)
NULL == "null"

\* The address of a defined function: never the null pointer.
AddressOf(fname) == fname

\* A stack frame: the function, the point reached in it, and its locals. f is the
\* function a trampoline stands for or the lookup fragment reached, r is the local
\* r of sys_try_init (line 70), lf its local _flag (line 71). In the frame of a
\* trampoline r notes the value the thread's flag had when the trampoline was
\* called.
Frame(fn, pc, f) == [fn |-> fn, pc |-> pc, f |-> f, r |-> 0, lf |-> 0]

UserFns == {"sys_init", "sys_thread_init", "inst"}

Top(t) == stack[t][Len(stack[t])]
HasTop(t) == Len(stack[t]) > 0
Pop(s) == SubSeq(s, 1, Len(s) - 1)
SetTop(s, fr) == [s EXCEPT ![Len(s)] = fr]
At(t, fn, pc) == HasTop(t) /\ Top(t).fn = fn /\ Top(t).pc = pc

\* void sys_inst_on(void), sys_inst_off(void), int sys_inst_save(int nr),
\* void sys_inst_restore(int r): the value each leaves in sys_flag_inst_on.
sys_inst_on == 1
sys_inst_off == 0
sys_inst_save(nr) == nr

\* A restore that turns instrumentation on whatever was saved
sys_inst_restore_on(r) == 1

sys_inst_restore(r) == r

ToggleValues == {sys_inst_on, sys_inst_off} \cup {sys_inst_save(nr) : nr \in {0, 1}}
                  \cup {sys_inst_restore(r) : r \in {0, 1}}

\* A loop that is left as soon as the flag is seen claimed: while (_flag == 0)
LoopContinuesWhileUnclaimed(lf) == lf = 0

\* while (_flag != 2)
LoopContinues(lf) == lf # 2

\* if (_flag == 2) goto skip_global;
SkipGlobal(lf) == lf = 2

\* __atomic_compare_exchange_n(&flag, &_flag, 1, ...): succeeds iff *ptr = expected
CasSucceeds(cur, expected) == cur = expected

\* A failed claim taken to mean that initialization is over
CasFailValueDone(cur) == 2

\* A compare-and-swap that does not write the current value back on failure
CasFailValueStale(cur) == 0

\* ... and on failure the current value is written into the expected variable
CasFailValue(cur) == cur

\* A per-thread guard that is never taken as set
ThreadInitNeededAlways(fl) == TRUE

\* if ({namespace}_sys_flag_thread_init == 0)
ThreadInitNeeded(fl) == fl = 0

\* if ({namespace}_sys_inst_on): the operand is the function sys_inst_on itself
DispatchCond(flag) == AddressOf("sys_inst_on") # NULL

InitRuntime ==
  /\ flag_init = 0
  /\ flag_thread_init = [t \in Threads |-> 0]
  /\ flag_inst_on = [t \in Threads |-> 0]
  /\ orig = [f \in Funcs |-> 0]
  /\ stack = [t \in Threads |-> <<>>]
  /\ appCalls = 0
  /\ userOps = 0
  /\ initCalls \in BOOLEAN
  /\ hist = [lookups |-> 0, sys_init_calls |-> 0, sys_init_rets |-> 0,
             body_by |-> {}, cas_won |-> {},
             thread_init_calls |-> [t \in Threads |-> 0],
             dispatched |-> {}]

\* Application code calls the intercepted function f: control enters the trampoline.
AppCall(t, f) ==
  /\ stack[t] = <<>>
  /\ appCalls < MaxAppCalls
  /\ appCalls' = appCalls + 1
  /\ stack' = [stack EXCEPT ![t] =
        <<[Frame("entry", "try_init", f) EXCEPT !.r = flag_inst_on[t]]>>]
  /\ UNCHANGED <<flag_init, flag_thread_init, flag_inst_on, orig, userOps, initCalls, hist>>
  /\ UNCHANGED gvars

\* Application code calls one of inst_on / inst_off / inst_save / inst_restore.
AppToggle(t) ==
  /\ stack[t] = <<>>
  /\ \E v \in ToggleValues : flag_inst_on' = [flag_inst_on EXCEPT ![t] = v]
  /\ UNCHANGED <<flag_init, flag_thread_init, orig, stack, appCalls, userOps, initCalls, hist>>
  /\ UNCHANGED gvars

\* line 39: {namespace}_sys_try_init();
EntryTryInit(t) ==
  /\ At(t, "entry", "try_init")
  /\ stack' = [stack EXCEPT ![t] =
        Append(SetTop(@, [Top(t) EXCEPT !.pc = "dispatch"]), Frame("try_init", "save", 0))]
  /\ UNCHANGED <<flag_init, flag_thread_init, flag_inst_on, orig, appCalls, userOps, initCalls, hist>>
  /\ UNCHANGED gvars

\* line 70: int r = sys_inst_save(0);
TryInitSave(t) ==
  /\ At(t, "try_init", "save")
  /\ stack' = [stack EXCEPT ![t] =
        SetTop(@, [Top(t) EXCEPT !.r = flag_inst_on[t], !.pc = "load"])]
  /\ flag_inst_on' = [flag_inst_on EXCEPT ![t] = sys_inst_save(0)]
  /\ UNCHANGED <<flag_init, flag_thread_init, orig, appCalls, userOps, initCalls, hist>>
  /\ UNCHANGED gvars

\* Where control goes when the loop of lines 75-80 is left with _flag = lf
\* (lines 82-83). _flag is not read after this test.
AfterLoop(lf) == IF SkipGlobal(lf) THEN "thread_init" ELSE "lookup"

\* lines 72-75: atomic load of the global flag, first test of the loop
TryInitLoad(t) ==
  /\ At(t, "try_init", "load")
  /\ LET lf == flag_init IN
       /\ stack' = [stack EXCEPT ![t] =
            SetTop(@, IF LoopContinues(lf)
                        THEN [Top(t) EXCEPT !.lf = lf, !.pc = "cas"]
                        ELSE [Top(t) EXCEPT !.lf = 0, !.pc = AfterLoop(lf),
                                !.f = IF AfterLoop(lf) = "lookup" THEN 1 ELSE 0])]
  /\ UNCHANGED <<flag_init, flag_thread_init, flag_inst_on, orig, appCalls, userOps, initCalls,
                 hist>>
  /\ UNCHANGED gvars

\* lines 76-79 and the loop test of line 75: pause; _flag = 0; compare-and-swap 0 -> 1
TryInitCas(t) ==
  /\ At(t, "try_init", "cas")
  /\ IF CasSucceeds(flag_init, 0)
       THEN /\ flag_init' = 1
            /\ stack' = [stack EXCEPT ![t] =
                 SetTop(@, [Top(t) EXCEPT !.lf = 0, !.pc = AfterLoop(0),
                              !.f = IF AfterLoop(0) = "lookup" THEN 1 ELSE 0])]
            /\ hist' = [hist EXCEPT !.cas_won = @ \cup {t}]
       ELSE LET lf == CasFailValue(flag_init) IN
            /\ flag_init' = flag_init
            /\ stack' = [stack EXCEPT ![t] =
                 SetTop(@, IF LoopContinues(lf)
                             THEN [Top(t) EXCEPT !.lf = lf]
                             ELSE [Top(t) EXCEPT !.lf = 0, !.pc = AfterLoop(lf),
                                     !.f = IF AfterLoop(lf) = "lookup" THEN 1 ELSE 0])]
            /\ hist' = hist
  /\ UNCHANGED <<flag_thread_init, flag_inst_on, orig, appCalls, userOps, initCalls>>
  /\ UNCHANGED gvars

\* line 85: the lookup fragments, one per function, in specification order
TryInitLookup(t) ==
  /\ At(t, "try_init", "lookup")
  /\ LET i == Top(t).f IN
       /\ orig' = [orig EXCEPT ![i] = 1]
       /\ stack' = [stack EXCEPT ![t] =
            SetTop(@, IF i = NFuncs THEN [Top(t) EXCEPT !.pc = "sys_init", !.f = 0]
                                    ELSE [Top(t) EXCEPT !.f = i + 1])]
       /\ hist' = [hist EXCEPT !.lookups = @ + 1, !.body_by = @ \cup {t}]
  /\ UNCHANGED <<flag_init, flag_thread_init, flag_inst_on, appCalls, userOps, initCalls>>
  /\ UNCHANGED gvars

\* line 87: {namespace}_sys_init();
TryInitSysInit(t) ==
  /\ At(t, "try_init", "sys_init")
  /\ stack' = [stack EXCEPT ![t] =
        Append(SetTop(@, [Top(t) EXCEPT !.pc = "store"]),
               Frame("sys_init", "body", 0))]
  /\ hist' = [hist EXCEPT !.sys_init_calls = @ + 1, !.body_by = @ \cup {t}]
  /\ UNCHANGED <<flag_init, flag_thread_init, flag_inst_on, orig, appCalls, userOps, initCalls>>
  /\ UNCHANGED gvars

\* line 88: __atomic_store_n(&flag, 2, __ATOMIC_RELEASE);
TryInitStore(t) ==
  /\ At(t, "try_init", "store")
  /\ flag_init' = 2
  /\ stack' = [stack EXCEPT ![t] = SetTop(@, [Top(t) EXCEPT !.pc = "thread_init"])]
  /\ UNCHANGED <<flag_thread_init, flag_inst_on, orig, appCalls, userOps, initCalls, hist>>
  /\ UNCHANGED gvars

\* lines 92-95: per-thread initialization
TryInitThreadInit(t) ==
  /\ At(t, "try_init", "thread_init")
  /\ IF ThreadInitNeeded(flag_thread_init[t])
       THEN /\ flag_thread_init' = [flag_thread_init EXCEPT ![t] = 1]
            /\ stack' = [stack EXCEPT ![t] =
                 Append(SetTop(@, [Top(t) EXCEPT !.pc = "restore"]),
                        Frame("sys_thread_init", "body", 0))]
            /\ hist' = [hist EXCEPT !.thread_init_calls[t] = @ + 1]
       ELSE /\ stack' = [stack EXCEPT ![t] = SetTop(@, [Top(t) EXCEPT !.pc = "restore"])]
            /\ UNCHANGED <<flag_thread_init, hist>>
  /\ UNCHANGED <<flag_init, flag_inst_on, orig, appCalls, userOps, initCalls>>
  /\ UNCHANGED gvars

\* line 96: sys_inst_restore(r); and the return of sys_try_init
TryInitRestore(t) ==
  /\ At(t, "try_init", "restore")
  /\ flag_inst_on' = [flag_inst_on EXCEPT ![t] = sys_inst_restore(Top(t).r)]
  /\ stack' = [stack EXCEPT ![t] = Pop(@)]
  /\ UNCHANGED <<flag_init, flag_thread_init, orig, appCalls, userOps, initCalls, hist>>
  /\ UNCHANGED gvars

\* lines 40-48: the dispatch of the trampoline
EntryDispatch(t) ==
  /\ At(t, "entry", "dispatch")
  /\ LET seen == [flag |-> flag_inst_on[t], callee |-> "none"] IN
     IF DispatchCond(flag_inst_on[t])
       THEN \* lines 41-42: clear the flag, call the instrumentation hook
            /\ flag_inst_on' = [flag_inst_on EXCEPT ![t] = 0]
            /\ stack' = [stack EXCEPT ![t] =
                 Append(SetTop(@, [Top(t) EXCEPT !.pc = "after_hook"]),
                        Frame("inst", "body", 0))]
            /\ hist' = [hist EXCEPT !.dispatched = @ \cup {[seen EXCEPT !.callee = "hook"]}]
       ELSE \* line 47: call the true implementation through the stored pointer
            /\ flag_inst_on' = flag_inst_on
            /\ stack' = [stack EXCEPT ![t] = Pop(@)]
            /\ hist' = [hist EXCEPT !.dispatched = @ \cup {[seen EXCEPT !.callee = "orig"]}]
  /\ UNCHANGED <<flag_init, flag_thread_init, orig, appCalls, userOps, initCalls>>
  /\ UNCHANGED gvars

\* lines 43-44: set the flag to 1, return
EntryAfterHook(t) ==
  /\ At(t, "entry", "after_hook")
  /\ flag_inst_on' = [flag_inst_on EXCEPT ![t] = 1]
  /\ stack' = [stack EXCEPT ![t] = Pop(@)]
  /\ UNCHANGED <<flag_init, flag_thread_init, orig, appCalls, userOps, initCalls, hist>>
  /\ UNCHANGED gvars

\* User code (sys_init, sys_thread_init or an instrumentation hook) toggles the flag.
UserToggle(t) ==
  /\ HasTop(t) /\ Top(t).fn \in UserFns /\ userOps < MaxUserOps
  /\ \E v \in ToggleValues : flag_inst_on' = [flag_inst_on EXCEPT ![t] = v]
  /\ userOps' = userOps + 1
  /\ UNCHANGED <<flag_init, flag_thread_init, orig, stack, appCalls, initCalls, hist>>
  /\ UNCHANGED gvars

\* User code calls an intercepted function.
UserCall(t, f) ==
  /\ HasTop(t) /\ Top(t).fn \in UserFns /\ userOps < MaxUserOps
  /\ Len(stack[t]) <= MaxDepth
  /\ Top(t).fn = "sys_init" => initCalls
  /\ userOps' = userOps + 1
  /\ stack' = [stack EXCEPT ![t] =
        Append(@, [Frame("entry", "try_init", f) EXCEPT !.r = flag_inst_on[t]])]
  /\ UNCHANGED <<flag_init, flag_thread_init, flag_inst_on, orig, appCalls, initCalls, hist>>
  /\ UNCHANGED gvars

\* User code returns.
UserReturn(t) ==
  /\ HasTop(t) /\ Top(t).fn \in UserFns
  /\ stack' = [stack EXCEPT ![t] = Pop(@)]
  /\ hist' = [hist EXCEPT !.sys_init_rets = IF Top(t).fn = "sys_init" THEN @ + 1 ELSE @]
  /\ UNCHANGED <<flag_init, flag_thread_init, flag_inst_on, orig, appCalls, userOps, initCalls>>
  /\ UNCHANGED gvars

NoOut == [files |-> NoFiles, err |-> OK, ran |-> FALSE, makefile |-> FALSE]

InitGen ==
  /\ cg = NewCodeGen
  /\ heap = Prototypes
  /\ log = <<>>
  /\ phase = "run1"
  /\ pos = 0
  /\ out = <<NoOut, NoOut>>
  /\ obs = <<>>

\* The effect of one logged call on (cg, heap, obs).
Apply(call) ==
  IF call.op = "include"
    THEN /\ cg' = add_include(cg, call.file)
         /\ UNCHANGED <<heap, obs>>
         /\ phase' = phase
    ELSE LET r == add_function(cg, heap[call.obj], call.includes, call.inst_name,
                               call.version_label)
         IN /\ cg' = r.cg
            /\ heap' = [heap EXCEPT ![call.obj] = r.prototype]
            /\ obs' = Append(obs, [given |-> heap[call.obj],
                                   inst_name |-> call.inst_name,
                                   version_label |-> call.version_label,
                                   result |-> r.prototype,
                                   err |-> r.err,
                                   names |-> r.names,
                                   touched |-> {a \in DOMAIN cg : r.cg[a] # cg[a]}])
            /\ phase' = IF r.err = OK THEN phase ELSE "aborted"

\* code_gen.add_include(file)
AddInclude(file) ==
  /\ phase = "run1" /\ Len(log) < MaxOps
  /\ LET call == [op |-> "include", file |-> file] IN
       /\ Apply(call)
       /\ log' = Append(log, call)
  /\ UNCHANGED <<pos, out, rvars>>

\* code_gen.add_function(prototype, includes, inst_name, version_label)
AddFunction(obj, includes, inst_name, version_label) ==
  /\ phase = "run1" /\ Len(log) < MaxOps
  /\ LET call == [op |-> "function", obj |-> obj, includes |-> includes,
                  inst_name |-> inst_name, version_label |-> version_label] IN
       /\ Apply(call)
       /\ log' = Append(log, call)
  /\ UNCHANGED <<pos, out, rvars>>

\* code_gen.generate('out', makefile = makefile) of the first run
Generate(makefile) ==
  /\ phase = "run1"
  /\ LET g == generate(cg, makefile) IN
       out' = [out EXCEPT ![1] = [files |-> g.files, err |-> g.err, ran |-> TRUE,
                                  makefile |-> makefile]]
  /\ phase' = "gen1"
  /\ UNCHANGED <<cg, heap, log, pos, obs, rvars>>

\* A fresh CodeGen with the same namespace, for the second run
StartSecondRun ==
  /\ phase = "gen1"
  /\ cg' = NewCodeGen
  /\ obs' = <<>>
  /\ pos' = 0
  /\ phase' = "run2"
  /\ UNCHANGED <<heap, log, out, rvars>>

\* The second run makes the next call of the first run again, with the same objects.
Replay ==
  /\ phase = "run2" /\ pos < Len(log)
  /\ Apply(log[pos + 1])
  /\ pos' = pos + 1
  /\ UNCHANGED <<log, out, rvars>>

\* generate of the second run
GenerateAgain ==
  /\ phase = "run2" /\ pos = Len(log)
  /\ LET g == generate(cg, out[1].makefile) IN
       out' = [out EXCEPT ![2] = [files |-> g.files, err |-> g.err, ran |-> TRUE,
                                  makefile |-> out[1].makefile]]
  /\ phase' = "done"
  /\ UNCHANGED <<cg, heap, log, pos, obs, rvars>>

NextGen ==
  \/ \E file \in IncludeFiles : AddInclude(file)
  \/ \E obj \in 1..Len(Prototypes), includes \in IncludeLists, inst_name \in InstNames,
        version_label \in Labels : AddFunction(obj, includes, inst_name, version_label)
  \/ \E makefile \in BOOLEAN : Generate(makefile)
  \/ StartSecondRun
  \/ Replay
  \/ GenerateAgain

\* The generator alone: no thread runs.
InitGenerator == InitGen /\ InitRuntime /\ initCalls = FALSE

SpecGen == InitGenerator /\ [][NextGen]_vars

\* A step of thread t inside the library or a hook (the thread is running code).
Running(t) ==
  \/ EntryTryInit(t)
  \/ TryInitSave(t)
  \/ TryInitLoad(t)
  \/ TryInitCas(t)
  \/ TryInitLookup(t)
  \/ TryInitSysInit(t)
  \/ TryInitStore(t)
  \/ TryInitThreadInit(t)
  \/ TryInitRestore(t)
  \/ EntryDispatch(t)
  \/ EntryAfterHook(t)
  \/ UserToggle(t)
  \/ \E f \in Funcs : UserCall(t, f)
  \/ UserReturn(t)

NextRuntime ==
  \E t \in Threads :
    \/ \E f \in Funcs : AppCall(t, f)
    \/ AppToggle(t)
    \/ Running(t)

\* The emitted runtime alone: the generator's state plays no part.
InitThreads == InitRuntime /\ InitGen

SpecRun == InitThreads /\ [][NextRuntime]_vars

\* The scheduler runs every thread that is executing code again and again; the
\* application is not obliged to make further calls.
SpecRunFair == SpecRun /\ \A t \in Threads : WF_vars(Running(t))

(***************************************************************************)
(* Claims about the emitted runtime                                        *)
(***************************************************************************)
Frames(t) == {stack[t][i] : i \in 1..Len(stack[t])}
InTryInit(t) == \E fr \in Frames(t) : fr.fn = "try_init"
Spinning(t) == HasTop(t) /\ Top(t).fn = "try_init" /\ Top(t).pc \in {"load", "cas"}
HookDepth(t) == Cardinality({i \in 1..Len(stack[t]) : stack[t][i].fn = "inst"})

\* C1: the global-initialization body (every lookup fragment, then sys_init) runs
\* exactly once in total, and only on the thread whose compare-and-swap moved the
\* global flag from 0 to 1.
C1_InitOnce ==
  /\ hist.lookups <= NFuncs
  /\ hist.sys_init_calls <= 1
  /\ Cardinality(hist.cas_won) <= 1
  /\ hist.body_by \subseteq hist.cas_won
  /\ flag_init = 2 => (hist.lookups = NFuncs /\ hist.sys_init_calls = 1)

\* Initialization is published while a thread that lost the claim is still in the loop.
C1_Witness ==
  /\ flag_init = 2
  /\ hist.sys_init_calls = 1
  /\ \E t \in Threads : t \notin hist.cas_won /\ At(t, "try_init", "cas") /\ Top(t).lf = 1

\* C2: no thread is past the global-initialization step of sys_try_init (at the
\* per-thread step, in a user hook other than sys_init, or at the dispatch of a
\* trampoline) unless the global flag is 2; then every pointer is assigned and
\* sys_init has returned; a thread that lost the claim never runs the body.
C2_NoEarlyExit ==
  /\ hist.body_by \subseteq hist.cas_won
  /\ \A t \in Threads : \A i \in 1..Len(stack[t]) :
       LET fr == stack[t][i]
           past == \/ fr.fn = "try_init" /\ fr.pc \in {"thread_init", "restore"}
                   \/ fr.fn \in {"sys_thread_init", "inst"}
                   \/ fr.fn = "entry" /\ fr.pc = "after_hook"
                   \/ fr.fn = "entry" /\ fr.pc = "dispatch" /\ i = Len(stack[t])
       IN past => /\ flag_init = 2
                  /\ \A f \in Funcs : orig[f] = 1
                  /\ hist.sys_init_rets >= 1

\* A thread that lost the claim stands at the dispatch of its trampoline.
C2_Witness ==
  \E t \in Threads :
    /\ hist.cas_won # {} /\ t \notin hist.cas_won
    /\ At(t, "entry", "dispatch")

\* C3: the trampoline calls the hook exactly when the thread's
\* instrumentation-enabled flag is true at the dispatch point, and the true
\* implementation exactly when it is false.
C3_DispatchOnFlag ==
  \A d \in hist.dispatched : (d.callee = "hook") <=> (d.flag = 1)

\* C4: no instrumentation hook is entered through a trampoline while another hook
\* invocation is active on the same thread.
C4_ReentrancyGuard == \A t \in Threads : HookDepth(t) <= 1

\* C5: sys_thread_init is invoked exactly once on every thread that has gone
\* through sys_try_init, whatever the number of its trampoline calls, and only
\* once the global flag is 2.
C5_ThreadInitOnce ==
  \A t \in Threads :
    /\ hist.thread_init_calls[t] <= 1
    /\ hist.thread_init_calls[t] = flag_thread_init[t]
    /\ hist.thread_init_calls[t] >= 1 => flag_init = 2
    /\ (\E fr \in Frames(t) : fr.fn = "try_init" /\ fr.pc = "restore")
         => hist.thread_init_calls[t] = 1
    /\ At(t, "entry", "dispatch") => hist.thread_init_calls[t] = 1

\* One thread has made every application call and returned; its hook ran once.
C5_Witness ==
  /\ appCalls = MaxAppCalls
  /\ \E t \in Threads :
       /\ stack[t] = <<>>
       /\ hist.thread_init_calls[t] = 1
       /\ \A u \in Threads \ {t} : flag_thread_init[u] = 0 /\ stack[u] = <<>>

\* C6: under fair scheduling, when sys_init calls no intercepted function, every
\* thread inside sys_try_init returns from it; and once the flag is 2 no thread
\* stays in the loop.
C6_SpinTerminates ==
  \A t \in Threads :
    /\ (~initCalls /\ InTryInit(t)) ~> ~InTryInit(t)
    /\ (flag_init = 2 /\ Spinning(t)) ~> ~Spinning(t)

\* A thread has found the flag at 1 and waits in the loop.
C6_Witness ==
  /\ ~initCalls
  /\ flag_init = 1
  /\ \E t \in Threads : At(t, "try_init", "cas") /\ Top(t).lf = 1

(***************************************************************************)
(* Claims about the generator                                              *)
(***************************************************************************)
\* The add_function calls of the current run that returned normally
Added == {i \in 1..Len(obs) : obs[i].err = OK}
NameOf(o) == o.given[1][2]
NamesOf(o) == {o.names.orig, o.names.entry, o.names.inst}
IsFnPtr(type_decl) == Contains(type_decl, <<"(", "*", ")">>)

\* C7 (as amended): two entries of one run with no explicit hook name whose
\* (name, version) pairs differ, the version being the label with every '@'
\* removed, share none of their three derived identifiers.
C7_DistinctNamesPerVersion ==
  \A i, j \in Added :
    (/\ i < j
     /\ obs[i].inst_name = None /\ obs[j].inst_name = None
     /\ <<NameOf(obs[i]), VersionOf(obs[i].version_label)>>
          # <<NameOf(obs[j]), VersionOf(obs[j].version_label)>>)
    => NamesOf(obs[i]) \cap NamesOf(obs[j]) = {}

\* C7 (as claimed): the same for entries whose (name, version_label) pairs differ.
C7_DistinctNamesPerLabel ==
  \A i, j \in Added :
    (/\ i < j
     /\ obs[i].inst_name = None /\ obs[j].inst_name = None
     /\ <<NameOf(obs[i]), obs[i].version_label>> # <<NameOf(obs[j]), obs[j].version_label>>)
    => NamesOf(obs[i]) \cap NamesOf(obs[j]) = {}

\* One name under two versions, with labels that carry '@'.
C7_Witness ==
  \E i, j \in Added :
    /\ i < j
    /\ obs[i].inst_name = None /\ obs[j].inst_name = None
    /\ NameOf(obs[i]) = NameOf(obs[j])
    /\ obs[i].version_label = <<"@", "V">> /\ obs[j].version_label = <<"@", "W">>
    /\ Cardinality(NamesOf(obs[i]) \cup NamesOf(obs[j])) = 6

TypedefLines(c) == SelectSeq(c.header_body, LAMBDA l : l.kind = "typedef")

\* The type table and the typedef lines of the header agree with every spelling
\* interned so far.
TypeTableOK ==
  /\ \A k \in 1..Len(cg.typedefs) :
       /\ IsFnPtr(cg.typedefs[k].key)
       /\ cg.typedefs[k].val = Namespace \o <<"_", "i", "n", "t", "e", "r", "n", "a", "l", "_", "t", "y", "p", "e", "_">> \o IntToStr(k - 1)
       /\ \A j \in 1..Len(cg.typedefs) :
            j # k => /\ cg.typedefs[j].key # cg.typedefs[k].key
                     /\ cg.typedefs[j].val # cg.typedefs[k].val
  /\ Len(TypedefLines(cg)) = Len(cg.typedefs)
  /\ \A k \in 1..Len(cg.typedefs) :
       TypedefLines(cg)[k].text =
         ReplaceFirst(cg.typedefs[k].key, <<"(", "*", ")">>, <<"(", "*">> \o cg.typedefs[k].val \o <<")">>)
  /\ \A i \in Added : \A p \in 1..Len(obs[i].given) :
       IsFnPtr(obs[i].given[p][1]) =>
         /\ DictHas(cg.typedefs, obs[i].given[p][1])
         /\ obs[i].result[p][1] = DictGet(cg.typedefs, obs[i].given[p][1])

\* Within a run no entry of the type table is removed or changed.
TypeTableKept ==
  phase' # "run2" \/ phase = "run2" =>
    /\ Len(cg'.typedefs) >= Len(cg.typedefs)
    /\ \A k \in 1..Len(cg.typedefs) : cg'.typedefs[k] = cg.typedefs[k]

\* C8: distinct function-pointer spellings get distinct typedef identifiers, every
\* occurrence of one spelling gets the same identifier, one typedef line is emitted
\* per distinct spelling, the k-th distinct spelling gets {ns}_internal_type_{k}
\* (0-based), and an assigned identifier is never removed or changed in the run.
C8_TypeInterning == []TypeTableOK /\ [][TypeTableKept]_vars

\* Two calls, two distinct spellings, at least four function-pointer occurrences.
C8_Witness ==
  /\ Len(obs) = 2 /\ Added = {1, 2}
  /\ Len(cg.typedefs) = 2
  /\ \E p, q \in 1..Len(obs[2].given) :
       /\ p # q
       /\ IsFnPtr(obs[2].given[p][1])
       /\ obs[2].given[p][1] = obs[2].given[q][1]
       /\ obs[2].result[p][1] = obs[2].result[q][1]
  /\ \E p \in 1..Len(obs[1].given) :
       IsFnPtr(obs[1].given[p][1]) /\ obs[1].given[p][1] # obs[2].given[2][1]

Versionless ==
  /\ \E i \in 1..Len(log) : log[i].op = "function"
  /\ \A i \in 1..Len(log) : log[i].op = "function" => log[i].version_label = None

\* C9: for a run with function entries, none carrying a version label, generate with the
\* build file requested completes, writes no version script and writes a build
\* file with no version-script option.
C9_UnversionedGenerate ==
  (out[1].ran /\ out[1].makefile /\ Versionless) =>
    /\ out[1].err = OK
    /\ out[1].files.version = None
    /\ out[1].files.makefile # None
    /\ \A i \in 1..Len(out[1].files.makefile) : out[1].files.makefile[i].version_options = ""

\* C10: a second run on a fresh CodeGen, fed the objects that were given to the
\* first, writes the same header, source and version script.
C10_Deterministic ==
  phase = "done" =>
    /\ out[2].files.header = out[1].files.header
    /\ out[2].files.source = out[1].files.source
    /\ out[2].files.version = out[1].files.version

\* The version of a label as the version script names it: the label without '@'.
Stripped(label) == IF label = None THEN None ELSE SelectSeq(label, LAMBDA ch : ch # "@")

\* The entries of the current run that were added with a version label, in add order
VersionedEntries == SelectSeq(obs, LAMBDA o : o.err = OK /\ o.version_label # None)

NoRepeat(s) == \A i, j \in 1..Len(s) : i # j => s[i] # s[j]

\* C11 (as amended): when the versioned entries of a run have pairwise distinct
\* (name, version) pairs, the version being the label with every '@' removed, no
\* name occurs twice in the version table's list of any version.
C11_NoRepeatPerVersion ==
  (\A i, j \in 1..Len(VersionedEntries) :
     i # j => <<NameOf(VersionedEntries[i]), Stripped(VersionedEntries[i].version_label)>>
                # <<NameOf(VersionedEntries[j]), Stripped(VersionedEntries[j].version_label)>>)
  => \A k \in 1..Len(cg.versioned_functions) : NoRepeat(cg.versioned_functions[k].val)

\* C11 (as claimed): the same when the (name, version_label) pairs are pairwise
\* distinct.
C11_NoRepeatPerLabel ==
  (\A i, j \in 1..Len(VersionedEntries) :
     i # j => <<NameOf(VersionedEntries[i]), VersionedEntries[i].version_label>>
                # <<NameOf(VersionedEntries[j]), VersionedEntries[j].version_label>>)
  => \A k \in 1..Len(cg.versioned_functions) : NoRepeat(cg.versioned_functions[k].val)

\* One name under the labels '@V' and '@W': two lists of one name each.
C11_Witness ==
  /\ Len(VersionedEntries) = 2
  /\ NameOf(VersionedEntries[1]) = NameOf(VersionedEntries[2])
  /\ VersionedEntries[1].version_label = <<"@", "V">>
  /\ VersionedEntries[2].version_label = <<"@", "W">>
  /\ Len(cg.versioned_functions) = 2
  /\ \A k \in 1..2 : cg.versioned_functions[k].val = <<NameOf(VersionedEntries[k])>>

\* The distinct elements of a sequence, in the order of their first occurrence
RECURSIVE FirstSightings(_)
FirstSightings(s) ==
  IF s = <<>> THEN <<>>
  ELSE LET d == FirstSightings(SubSeq(s, 1, Len(s) - 1))
           x == s[Len(s)]
       IN IF \E i \in 1..Len(d) : d[i] = x THEN d ELSE Append(d, x)

VersionsSeen ==
  FirstSightings([i \in 1..Len(VersionedEntries) |-> Stripped(VersionedEntries[i].version_label)])

\* The names of the entries carrying version v, in add order
NamesCarrying(v) ==
  LET es == SelectSeq(VersionedEntries, LAMBDA o : Stripped(o.version_label) = v)
  IN [i \in 1..Len(es) |-> NameOf(es[i])]

\* The stanzas the entries of the current run call for
ExpectedStanzas ==
  [k \in 1..Len(VersionsSeen) |->
     [version |-> VersionsSeen[k],
      functions |-> Join(NamesCarrying(VersionsSeen[k]), <<";", " ">>)]]

\* C12: the version script has one stanza per distinct version, in first-sighting
\* order, each listing in add order exactly the names of the entries carrying that
\* version; entries without a version label are in no stanza; with no versioned
\* entry no version script is written.
C12_VersionStanzas ==
  /\ get_version_contents(cg) = ExpectedStanzas
  /\ \A k \in 1..Len(cg.versioned_functions) :
       cg.versioned_functions[k].val = NamesCarrying(VersionsSeen[k])
  /\ \A r \in 1..2 :
       (out[r].ran /\ phase = (IF r = 1 THEN "gen1" ELSE "done")) =>
         out[r].files.version = (IF ExpectedStanzas = <<>> THEN None ELSE ExpectedStanzas)

\* A written version script of one stanza that lists two names in add order, the
\* labels of the two entries being spelt differently ('V' and '@V').
C12_Witness ==
  /\ phase = "gen1" /\ out[1].ran
  /\ Len(VersionedEntries) = 2
  /\ Len(out[1].files.version) = 1
  /\ NameOf(VersionedEntries[1]) # NameOf(VersionedEntries[2])
  /\ VersionedEntries[1].version_label # VersionedEntries[2].version_label
  /\ out[1].files.version[1].functions =
       NameOf(VersionedEntries[1]) \o <<";", " ">> \o NameOf(VersionedEntries[2])

\* C13: an add_function call that fails on a malformed entry has changed no
\* attribute of the CodeGen object (header body, source body, storage
\* declarations, lookup fragments, type table, version-id map, version table).
C13_FailureChangesNothing ==
  \A i \in 1..Len(obs) : obs[i].err # OK => obs[i].touched = {}

\* The include files the first run asked for, by add_include or by the includes
\* argument of an add_function call
Requested ==
  {log[i].file : i \in {k \in 1..Len(log) : log[k].op = "include"}}
    \cup UNION {{log[i].includes[n] : n \in 1..Len(log[i].includes)} :
                  i \in {k \in 1..Len(log) : log[k].op = "function"}}

\* C14: the written header holds exactly one #include line for each distinct
\* include file requested in the run, globally or per function, and no other.
C14_IncludesOnce ==
  (phase = "gen1" /\ out[1].ran) =>
    LET inc == out[1].files.header.includes IN
      /\ \A file \in Requested :
           Cardinality({n \in 1..Len(inc) : inc[n] = Line("include", file)}) = 1
      /\ \A n \in 1..Len(inc) : \E file \in Requested : inc[n] = Line("include", file)

\* The disambiguators the function name and version label of an entry allow:
\* name + '__' when unversioned, name + '_' + a version id when versioned.
Disambiguators(o) ==
  IF o.version_label = None
    THEN {NameOf(o) \o <<"_", "_">>}
    ELSE {NameOf(o) \o <<"_">> \o IntToStr(n) : n \in 0..MaxOps}

\* C15: for an entry added with an explicit hook name, the hook identifier is that
\* name verbatim, and the storage variable and the trampoline are {ns}_orig_{d} and
\* {ns}_entry_{d} for one disambiguator d derived from the function's name and
\* version label.
C15_ExplicitHookName ==
  \A i \in Added :
    obs[i].inst_name # None =>
      /\ obs[i].names.inst = obs[i].inst_name
      /\ \E d \in Disambiguators(obs[i]) :
           /\ obs[i].names.orig = Namespace \o <<"_", "o", "r", "i", "g", "_">> \o d
           /\ obs[i].names.entry = Namespace \o <<"_", "e", "n", "t", "r", "y", "_">> \o d

\* ENTRY_FUNC_TEMPLATE, lines 37-50, filled in with the values of an entry record
\* of the source body: the statements of the two branches of the trampoline, in
\* order (a statement that the substitution leaves empty is the empty string).

\* A trampoline that calls the true implementation and drops its result
ElseBranchDroppingResult(e) ==
  <<e.original_var_name \o <<"(">> \o e.args_call_list \o <<")", ";">>>>

\* line 47: {return_if_needed}{original_var_name}({args_call_list});
ElseBranch(e) ==
  <<e.return_if_needed \o e.original_var_name \o <<"(">> \o e.args_call_list \o <<")", ";">>>>

\* lines 41-44
HookBranch(e) ==
  <<Namespace \o <<"_", "s", "y", "s", "_", "f", "l", "a", "g", "_", "i", "n", "s", "t", "_", "o", "n", " ", "=", " ", "0", ";">>,
    e.save_return_value \o e.inst_func_name \o <<"(">> \o e.args_call_list \o <<")", ";">>,
    Namespace \o <<"_", "s", "y", "s", "_", "f", "l", "a", "g", "_", "i", "n", "s", "t", "_", "o", "n", " ", "=", " ", "1", ";">>,
    e.return_saved_value>>

\* The trampolines of the source body
Entries(c) == SelectSeq(c.source_body, LAMBDA e : e.kind = "entry")

StartsWith(s, prefix) == Len(s) >= Len(prefix) /\ SubSeq(s, 1, Len(prefix)) = prefix
IsReturn(stmt) == StartsWith(stmt, <<"r", "e", "t", "u", "r", "n", " ">>) \/ stmt = <<"r", "e", "t", "u", "r", "n", ";">>
ReturnCount(stmts) == Cardinality({n \in 1..Len(stmts) : IsReturn(stmts[n])})
Temporary == Namespace \o <<"_", "r", "e", "t", "_", "v", "a", "l", "u", "e">>

\* A void trampoline declares no temporary and returns no value on either branch.
VoidReturnsNothing(e) ==
  e.return_type = TVoid =>
    \A n \in 1..4 : LET stmt == (HookBranch(e) \o ElseBranch(e))[n]
                    IN ~IsReturn(stmt) /\ ~Contains(stmt, Temporary)
                         /\ ~StartsWith(stmt, e.return_type \o <<" ">>)

\* A non-void trampoline hands back what the callee of the branch taken returned:
\* the hook's result through a temporary of the return type, read again only by the
\* return that ends the branch, the true implementation's result directly.
NonVoidReturnsResult(e) ==
  e.return_type # TVoid =>
    /\ HookBranch(e)[2] = e.return_type \o <<" ">> \o Temporary \o <<" ", "=", " ">>
                            \o e.inst_func_name \o <<"(">> \o e.args_call_list \o <<")", ";">>
    /\ ~Contains(HookBranch(e)[3], Temporary)
    /\ HookBranch(e)[4] = <<"r", "e", "t", "u", "r", "n", " ">> \o Temporary \o <<";">>
    /\ ElseBranch(e) = <<<<"r", "e", "t", "u", "r", "n", " ">> \o e.original_var_name \o <<"(">> \o e.args_call_list \o <<")", ";">>>>

InternalType(k) == Namespace \o <<"_", "i", "n", "t", "e", "r", "n", "a", "l", "_", "t", "y", "p", "e", "_">> \o IntToStr(k)

\* The function-pointer spellings given to the calls of the current run that
\* returned normally, in order: return type first, then the parameters
RECURSIVE SpellingsGiven(_)
SpellingsGiven(n) ==
  IF n = 0 THEN <<>>
  ELSE SpellingsGiven(n - 1) \o
         (IF obs[n].err = OK
            THEN SelectSeq([p \in 1..Len(obs[n].given) |-> obs[n].given[p][1]], IsFnPtr)
            ELSE <<>>)

\* C20: every typedef identifier that occurs in an extern declaration or a hook
\* declaration of the header body is declared by a typedef line earlier in the
\* header body, and the typedef lines are in first-sighting order of their
\* spellings.
C20_TypedefBeforeUse ==
  /\ \A n \in 1..Len(cg.header_body) : \A k \in 0..9 :
       (cg.header_body[n].kind \in {"extern", "decl"}
          /\ Contains(cg.header_body[n].text, InternalType(k)))
       => \E m \in 1..(n - 1) :
            /\ cg.header_body[m].kind = "typedef"
            /\ Contains(cg.header_body[m].text, <<"(", "*">> \o InternalType(k) \o <<")">>)
  /\ phase # "aborted" =>
       LET seen == FirstSightings(SpellingsGiven(Len(obs))) IN
         /\ Len(TypedefLines(cg)) = Len(seen)
         /\ \A k \in 1..Len(seen) :
              TypedefLines(cg)[k].text =
                ReplaceFirst(seen[k], <<"(", "*", ")">>, <<"(", "*">> \o InternalType(k - 1) \o <<")">>)

(***************************************************************************)
(* Further claims about the emitted runtime                                *)
(***************************************************************************)
\* Thread t returns from a trampoline in this step.
TrampolineReturns(t) ==
  /\ HasTop(t) /\ Top(t).fn = "entry"
  /\ stack'[t] = Pop(stack[t])

\* C17: a trampoline call returns with the calling thread's flag equal to the value
\* it had when the trampoline was called, whether that was true or false.
C17_FlagKept ==
  [][\A t \in Threads : TrampolineReturns(t) => flag_inst_on'[t] = Top(t).r]_vars

\* Thread t has just entered a trampoline whose frame is the d-th of its stack.
EnteredAt(t, d) ==
  Len(stack[t]) = d /\ Top(t).fn = "entry" /\ Top(t).pc = "try_init"

\* C18: under fair scheduling every trampoline entered returns, whatever its call
\* site: also one entered from sys_init on the thread that is running the
\* global-initialization body, while the global flag is 1.
C18_EntryReturns ==
  \A t \in Threads : \A d \in 1..(MaxDepth + 1) :
    EnteredAt(t, d) ~> (Len(stack[t]) < d)

\* On entry sys_try_init has cleared the flag of thread t: it is clear all through
\* the loop, at the first lookup fragment and at the call of sys_init.
ClearedOnEntry(t) ==
  (HasTop(t) /\ Top(t).fn = "try_init" /\ Top(t).pc \in {"load", "cas", "lookup", "sys_init"})
    => flag_inst_on[t] = 0

\* The local r of every sys_try_init holds the flag as its caller, a trampoline,
\* found it.
SavedAtEntry(t) ==
  \A i \in 2..Len(stack[t]) :
    (stack[t][i].fn = "try_init" /\ stack[t][i].pc # "save")
      => stack[t][i].r = stack[t][i - 1].r

\* Thread t is about to call sys_thread_init.
CallsThreadInit(t) ==
  At(t, "try_init", "thread_init") /\ ThreadInitNeeded(flag_thread_init[t])

\* Thread t returns from sys_try_init in this step.
TryInitReturns(t) ==
  /\ HasTop(t) /\ Top(t).fn = "try_init"
  /\ stack'[t] = Pop(stack[t])

RestoredOnReturn ==
  \A t \in Threads : TryInitReturns(t) => flag_inst_on'[t] = Top(t).r

\* C19 (as amended): sys_try_init saves the thread's flag and clears it on entry,
\* so the lookup fragments and sys_init start with the flag cleared, and so does
\* sys_thread_init on a thread that did not run sys_init in the same call; on
\* return the flag is set back to the value saved at entry, whatever the user hooks
\* did to it.
C19_SaveClearRestore ==
  /\ [](\A t \in Threads :
          /\ ClearedOnEntry(t)
          /\ SavedAtEntry(t)
          /\ (CallsThreadInit(t) /\ t \notin hist.body_by) => flag_inst_on[t] = 0)
  /\ [][RestoredOnReturn]_vars

\* C19 (as claimed): the same, sys_thread_init starting with the flag cleared on
\* every thread.
C19_AllStartCleared ==
  /\ [](\A t \in Threads :
          /\ ClearedOnEntry(t)
          /\ SavedAtEntry(t)
          /\ CallsThreadInit(t) => flag_inst_on[t] = 0)
  /\ [][RestoredOnReturn]_vars

\* A user hook has turned the flag on during sys_thread_init on a thread that
\* entered with the flag off, and sys_try_init is about to return.
C19_Witness ==
  \E t \in Threads :
    /\ At(t, "try_init", "restore")
    /\ Top(t).r = 0 /\ flag_inst_on[t] = 1
    /\ userOps = 1 /\ t \notin hist.body_by

====
